---- MODULE Spec2Model ----
(***************************************************************************)
(* Blue LED status indicator (src/blinky/led_status_indicator.c): the      *)
(* pattern sequencer, its pattern table, its two one-shot timers and the   *)
(* timer-service context that runs their callbacks.                        *)
(*                                                                         *)
(* Every handler (led_status_set, led_status_stop, the two timer           *)
(* callbacks) is one atomic action.  A one-shot timer that expires puts    *)
(* its callback on the timer service's queue; osTimerStop cancels an armed *)
(* timer but does not take a callback off that queue.                      *)
(* step_start_time and pattern_start_time are written and never read, so   *)
(* they are not part of the state.                                         *)
(*                                                                         *)
(* Battery monitor (src/blinky/battery_monitor.c): the threshold           *)
(* classifier, its state-change bookkeeping and observer, and its periodic *)
(* timer.  Voltages are in millivolts and currents in milliamperes, as     *)
(* integers.  The two components share the timer service only, so each has *)
(* its own specification: Spec and SpecCfg run the sequencer with the      *)
(* monitor initialised and idle, SpecBattery runs the monitor with the     *)
(* sequencer initialised and idle.                                         *)
(***************************************************************************)
EXTENDS Integers, Sequences, FiniteSets, TLC

VARIABLES
    g_led_context,   \* led_status_context_t: the sequencer's record
    blue_led,        \* the actuator: last command given to leds_play(BLUE_LED, .)
    cb_queue,        \* callbacks of expired timers, not yet run by the timer service
    patterns,        \* the pattern table in use
    null_read,       \* what a read through the NULL steps pointer yields in this build
    faulted,         \* the NULL read trapped: the program has stopped
    last,            \* history: the operation that produced this state
    g_battery_status,  \* battery_status_t: the monitor's record
    g_state_callback,  \* the registered state-change observer, or NULL
    g_monitor_timer,   \* the periodic monitor timer
    g_monitor_active,  \* set by battery_monitor_start, cleared by battery_monitor_stop
    battery_last       \* history: the monitor operation that produced this state

led_vars == <<g_led_context, blue_led, patterns, null_read, faulted, last>>
battery_vars == <<g_battery_status, g_state_callback, g_monitor_timer,
                  g_monitor_active, battery_last>>
vars == <<g_led_context, blue_led, cb_queue, patterns, null_read, faulted, last,
          g_battery_status, g_state_callback, g_monitor_timer,
          g_monitor_active, battery_last>>

\* ------------------------------------------------------------------ bounds
MaxQueue == 2        \* callbacks that may wait in the timer service's queue
MaxStatusArg == 13   \* largest led_status_t value passed to led_status_set
MaxGarbageCount == 1 \* garbage repeat_count 0.., flash_count 1.. read through NULL
                     \* (all-zero memory is read as well)
MaxAutoStopDelay == 1 \* SpecCfg: auto_stop_delay_ms of a table is 1..MaxAutoStopDelay s
MaxPercent == 100    \* largest battery_percent passed to battery_monitor_update_values

\* ------------------------------------------------------- led_status_t enum
LED_STATUS_POWER_ON == 0
LED_STATUS_BLE_PAIRING == 1
LED_STATUS_BLE_PAIR_SUCCESS == 2
LED_STATUS_BLE_PAIR_FAIL == 3
LED_STATUS_FACTORY_RESET == 4
LED_STATUS_LOW_BATTERY == 5
LED_STATUS_OTA_UPDATE == 6
LED_STATUS_OTA_SUCCESS == 7
LED_STATUS_OTA_FAIL == 8
LED_STATUS_CHARGING == 9
LED_STATUS_CHARGE_COMPLETE == 10
LED_STATUS_OFF == 11
LED_STATUS_MAX == 12

Uint8 == 256

\* ---------------------------------------------------------- pattern table
led_pattern_step_t(on, off, repeat, flashes) ==
    [fault |-> FALSE, on_time_ms |-> on, off_time_ms |-> off,
     repeat_count |-> repeat, flash_count |-> flashes]

led_pattern_config_t(steps, count, auto, delay) ==
    [steps |-> steps, step_count |-> count, auto_stop |-> auto,
     auto_stop_delay_ms |-> delay]

pattern_power_on == << led_pattern_step_t(2000, 0, 1, 1) >>
pattern_ble_pairing == << led_pattern_step_t(200, 800, 0, 1) >>
pattern_ble_pair_success == << led_pattern_step_t(2000, 0, 1, 1) >>
pattern_ble_pair_fail ==
    << led_pattern_step_t(200, 200, 1, 2),
       led_pattern_step_t(0, 600, 1, 1),
       led_pattern_step_t(200, 200, 0, 2) >>
pattern_factory_reset == << led_pattern_step_t(2000, 0, 1, 1) >>
pattern_ota_update == << led_pattern_step_t(200, 2800, 0, 1) >>
pattern_ota_fail ==
    << led_pattern_step_t(100, 100, 1, 3),
       led_pattern_step_t(0, 2700, 1, 1) >>
pattern_off == << led_pattern_step_t(0, 0, 0, 0) >>

\* An enumerator without a designated initializer is zero-initialized:
\* steps == NULL (the empty sequence here), step_count == 0, auto_stop == false.
ZeroConfig == led_pattern_config_t(<< >>, 0, FALSE, 0)

led_patterns ==
    [s \in 0 .. (LED_STATUS_MAX - 1) |->
        CASE s = LED_STATUS_POWER_ON         -> led_pattern_config_t(pattern_power_on, 1, TRUE, 0)
          [] s = LED_STATUS_BLE_PAIRING      -> led_pattern_config_t(pattern_ble_pairing, 1, FALSE, 0)
          [] s = LED_STATUS_BLE_PAIR_SUCCESS -> led_pattern_config_t(pattern_ble_pair_success, 1, TRUE, 0)
          [] s = LED_STATUS_BLE_PAIR_FAIL    -> led_pattern_config_t(pattern_ble_pair_fail, 3, FALSE, 0)
          [] s = LED_STATUS_FACTORY_RESET    -> led_pattern_config_t(pattern_factory_reset, 1, TRUE, 0)
          [] s = LED_STATUS_OTA_UPDATE       -> led_pattern_config_t(pattern_ota_update, 1, FALSE, 0)
          [] s = LED_STATUS_OTA_SUCCESS      -> led_pattern_config_t(pattern_off, 1, TRUE, 0)
          [] s = LED_STATUS_OTA_FAIL         -> led_pattern_config_t(pattern_ota_fail, 2, FALSE, 0)
          [] s = LED_STATUS_OFF              -> led_pattern_config_t(pattern_off, 1, TRUE, 0)
          [] OTHER                           -> ZeroConfig]

GarbageMs == {0, 100}   \* garbage on_time_ms / off_time_ms: zero and not

\* What dereferencing the NULL steps pointer can produce: a trap, or whatever
\* bytes the build has at address 0, read as a led_pattern_step_t.
NullReads ==
    { [led_pattern_step_t(0, 0, 0, 0) EXCEPT !.fault = TRUE] }
    \cup { led_pattern_step_t(on, off, r, f) :
             on \in GarbageMs, off \in GarbageMs,
             r \in 0 .. MaxGarbageCount, f \in 1 .. MaxGarbageCount }
    \cup { led_pattern_step_t(0, 0, 0, 0) }

\* ------------------------------------------------------------ timer service
TimerStopped == [armed |-> FALSE, delay |-> 0]
osTimerStart(delay) == [armed |-> TRUE, delay |-> delay]
osTimerStop == TimerStopped

\* ------------------------------------------------- execution of one handler
\* x.ctx is g_led_context; x.led the actuator; the other fields record what the
\* handler did (actuator commands sent, pattern wrapped round, trap taken).
Exec(ctx, led) ==
    [ctx |-> ctx, led |-> led, cmds |-> << >>, fault |-> FALSE,
     wrapped |-> FALSE, completed |-> FALSE, ran |-> FALSE]

led_set_physical_state(x, on) ==
    [x EXCEPT !.ctx.led_state = on, !.led = on, !.cmds = Append(@, on)]

\* &config->steps[i]
StepRef(config, i) ==
    IF config.steps = << >> THEN null_read ELSE config.steps[i + 1]

RECURSIVE led_start_next_step(_)
RECURSIVE led_process_current_step(_)

\* Mutant: the completion branch never restarts an infinite pattern.
led_start_next_step_NoRepeat(x) ==
    LET config == patterns[x.ctx.current_status] IN
    IF x.ctx.current_step >= config.step_count
    THEN led_set_physical_state(
             [x EXCEPT !.ctx.pattern_state = "COMPLETE", !.completed = TRUE], FALSE)
    ELSE led_process_current_step([x EXCEPT !.ctx.current_flash = 0])

\* Mutant: the auto-stop timer is started whenever auto_stop is set, the
\* auto_stop_delay_ms > 0 test forgotten.
led_start_next_step_ArmsAlways(x) ==
    LET config == patterns[x.ctx.current_status] IN
    IF x.ctx.current_step >= config.step_count
    THEN LET first_step == StepRef(config, 0) IN
         IF first_step.fault
         THEN [x EXCEPT !.fault = TRUE]
         ELSE IF first_step.repeat_count = 0
         THEN led_process_current_step(
                  [x EXCEPT !.ctx.current_step = 0, !.ctx.current_flash = 0,
                            !.wrapped = TRUE])
         ELSE LET done == led_set_physical_state(
                              [x EXCEPT !.ctx.pattern_state = "COMPLETE",
                                        !.completed = TRUE], FALSE)
              IN IF config.auto_stop
                 THEN [done EXCEPT !.ctx.auto_stop_timer =
                                       osTimerStart(config.auto_stop_delay_ms)]
                 ELSE done
    ELSE led_process_current_step([x EXCEPT !.ctx.current_flash = 0])

led_start_next_step(x) ==
    LET config == patterns[x.ctx.current_status] IN
    IF x.ctx.current_step >= config.step_count
    THEN LET first_step == StepRef(config, 0) IN
         IF first_step.fault
         THEN [x EXCEPT !.fault = TRUE]
         ELSE IF first_step.repeat_count = 0
         THEN led_process_current_step(
                  [x EXCEPT !.ctx.current_step = 0, !.ctx.current_flash = 0,
                            !.wrapped = TRUE])
         ELSE LET done == led_set_physical_state(
                              [x EXCEPT !.ctx.pattern_state = "COMPLETE",
                                        !.completed = TRUE], FALSE)
              IN IF config.auto_stop /\ config.auto_stop_delay_ms > 0
                 THEN [done EXCEPT !.ctx.auto_stop_timer =
                                       osTimerStart(config.auto_stop_delay_ms)]
                 ELSE done
    ELSE led_process_current_step([x EXCEPT !.ctx.current_flash = 0])

led_process_current_step(x) ==
    LET config == patterns[x.ctx.current_status]
        step == StepRef(config, x.ctx.current_step)
    IN
    IF step.fault
    THEN [x EXCEPT !.fault = TRUE]
    ELSE IF x.ctx.current_flash >= step.flash_count /\ step.flash_count > 0
    THEN led_start_next_step(
             [x EXCEPT !.ctx.current_step = (@ + 1) % Uint8, !.ran = TRUE])
    ELSE LET solid == step.on_time_ms = 0 /\ step.off_time_ms = 0
             next_led_state == IF solid THEN FALSE ELSE ~x.ctx.led_state
             next_delay == IF solid THEN 1000
                           ELSE IF ~x.ctx.led_state THEN step.on_time_ms
                                ELSE step.off_time_ms
             counted == IF ~solid /\ x.ctx.led_state
                        THEN [x EXCEPT !.ctx.current_flash = (@ + 1) % Uint8,
                                       !.ran = TRUE]
                        ELSE [x EXCEPT !.ran = TRUE]
             driven == led_set_physical_state(counted, next_led_state)
         IN IF next_delay > 0
            THEN [driven EXCEPT !.ctx.timer_handle = osTimerStart(next_delay)]
            ELSE led_process_current_step(driven)

\* ------------------------------------------------------------- the handlers
\* Mutant: the special case for OFF / OTA_SUCCESS forgets to drive the output off.
led_status_set_body_KeepsOutput(x, status) ==
    IF status >= LED_STATUS_MAX
    THEN [x |-> x, ret |-> "SL_STATUS_INVALID_PARAMETER"]
    ELSE LET reset == [x EXCEPT !.ctx.timer_handle = osTimerStop,
                                !.ctx.auto_stop_timer = osTimerStop,
                                !.ctx.current_status = status,
                                !.ctx.pattern_state = "ACTIVE",
                                !.ctx.current_step = 0,
                                !.ctx.current_flash = 0,
                                !.ctx.repeat_counter = 0]
         IN IF status = LED_STATUS_OFF \/ status = LED_STATUS_OTA_SUCCESS
            THEN [x |-> [reset EXCEPT !.ctx.pattern_state = "COMPLETE"],
                  ret |-> "SL_STATUS_OK"]
            ELSE LET started == led_start_next_step(reset) IN
                 [x |-> started,
                  ret |-> IF started.fault THEN "FAULT" ELSE "SL_STATUS_OK"]

\* Mutant: the range check comes after the timers are stopped.
led_status_set_body_LateCheck(x, status) ==
    LET stopped == [x EXCEPT !.ctx.timer_handle = osTimerStop,
                             !.ctx.auto_stop_timer = osTimerStop]
    IN
    IF status >= LED_STATUS_MAX
    THEN [x |-> stopped, ret |-> "SL_STATUS_INVALID_PARAMETER"]
    ELSE LET reset == [stopped EXCEPT !.ctx.current_status = status,
                                      !.ctx.pattern_state = "ACTIVE",
                                      !.ctx.current_step = 0,
                                      !.ctx.current_flash = 0,
                                      !.ctx.repeat_counter = 0]
         IN IF status = LED_STATUS_OFF \/ status = LED_STATUS_OTA_SUCCESS
            THEN [x |-> [led_set_physical_state(reset, FALSE)
                            EXCEPT !.ctx.pattern_state = "COMPLETE"],
                  ret |-> "SL_STATUS_OK"]
            ELSE LET started == led_start_next_step(reset) IN
                 [x |-> started,
                  ret |-> IF started.fault THEN "FAULT" ELSE "SL_STATUS_OK"]

\* Mutant: set() forgets to reset current_step.
led_status_set_body_KeepsCursor(x, status) ==
    IF status >= LED_STATUS_MAX
    THEN [x |-> x, ret |-> "SL_STATUS_INVALID_PARAMETER"]
    ELSE LET reset == [x EXCEPT !.ctx.timer_handle = osTimerStop,
                                !.ctx.auto_stop_timer = osTimerStop,
                                !.ctx.current_status = status,
                                !.ctx.pattern_state = "ACTIVE",
                                !.ctx.current_flash = 0,
                                !.ctx.repeat_counter = 0]
         IN IF status = LED_STATUS_OFF \/ status = LED_STATUS_OTA_SUCCESS
            THEN [x |-> [led_set_physical_state(reset, FALSE)
                            EXCEPT !.ctx.pattern_state = "COMPLETE"],
                  ret |-> "SL_STATUS_OK"]
            ELSE LET started == led_start_next_step(reset) IN
                 [x |-> started,
                  ret |-> IF started.fault THEN "FAULT" ELSE "SL_STATUS_OK"]

led_status_set_body(x, status) ==
    IF status >= LED_STATUS_MAX
    THEN [x |-> x, ret |-> "SL_STATUS_INVALID_PARAMETER"]
    ELSE LET reset == [x EXCEPT !.ctx.timer_handle = osTimerStop,
                                !.ctx.auto_stop_timer = osTimerStop,
                                !.ctx.current_status = status,
                                !.ctx.pattern_state = "ACTIVE",
                                !.ctx.current_step = 0,
                                !.ctx.current_flash = 0,
                                !.ctx.repeat_counter = 0]
         IN IF status = LED_STATUS_OFF \/ status = LED_STATUS_OTA_SUCCESS
            THEN [x |-> [led_set_physical_state(reset, FALSE)
                            EXCEPT !.ctx.pattern_state = "COMPLETE"],
                  ret |-> "SL_STATUS_OK"]
            ELSE LET started == led_start_next_step(reset) IN
                 [x |-> started,
                  ret |-> IF started.fault THEN "FAULT" ELSE "SL_STATUS_OK"]

\* Mutant: stop() forgets osTimerStop(timer_handle).
led_status_stop_body_KeepsTimer(x) ==
    [led_set_physical_state(
         [x EXCEPT !.ctx.auto_stop_timer = osTimerStop], FALSE)
       EXCEPT !.ctx.pattern_state = "IDLE",
              !.ctx.current_status = LED_STATUS_OFF]

led_status_stop_body(x) ==
    [led_set_physical_state(
         [x EXCEPT !.ctx.timer_handle = osTimerStop,
                   !.ctx.auto_stop_timer = osTimerStop], FALSE)
       EXCEPT !.ctx.pattern_state = "IDLE",
              !.ctx.current_status = LED_STATUS_OFF]

\* Mutant: the guard tests for COMPLETE only, so a callback that follows
\* stop() runs the step logic.
led_timer_callback_body_IdleRuns(x) ==
    IF x.ctx.pattern_state # "COMPLETE" THEN led_process_current_step(x) ELSE x

led_timer_callback_body(x) ==
    IF x.ctx.pattern_state = "ACTIVE" THEN led_process_current_step(x) ELSE x

auto_stop_timer_callback_body(x) == led_status_stop_body(x)

led_status_get_current == g_led_context.current_status
led_status_is_active == g_led_context.pattern_state = "ACTIVE"

\* A callback waiting in the queue was armed for the pattern that was current
\* when its timer expired.  Its replaced field records that stop(), or set() of
\* another status, has ended that pattern since.
Outdated(q) == [i \in 1 .. Len(q) |-> [q[i] EXCEPT !.replaced = TRUE]]

History(op, arg, ret, x, replaced) ==
    [op |-> op, arg |-> arg, ret |-> ret, replaced |-> replaced, ran |-> x.ran,
     wrapped |-> x.wrapped, completed |-> x.completed, cmds |-> x.cmds,
     pre |-> [pattern_state |-> g_led_context.pattern_state,
              led_state |-> g_led_context.led_state,
              timer_armed |-> g_led_context.timer_handle.armed]]

\* ---------------------------------------------------------- battery monitor
BATTERY_LOW_THRESHOLD_PERCENT == 20
BATTERY_CRITICAL_THRESHOLD_PERCENT == 10
BATTERY_FULL_THRESHOLD_PERCENT == 95
CHARGING_CURRENT_THRESHOLD_MA == 50
BATTERY_MONITOR_PERIOD_MS == 5000

BATTERY_STATE_UNKNOWN == 0
BATTERY_STATE_NORMAL == 1
BATTERY_STATE_LOW == 2
BATTERY_STATE_CRITICAL == 3
BATTERY_STATE_CHARGING == 4
BATTERY_STATE_FULL == 5

NULL == "NULL"

battery_status_t(percent, mv, ma, state, charging, warning) ==
    [battery_percent |-> percent, battery_voltage |-> mv,
     charging_current_ma |-> ma, state |-> state, is_charging |-> charging,
     is_low_battery_warning_active |-> warning]

\* osTimerId_t of the monitor timer; created is FALSE for a NULL handle
MonitorTimer(created, armed) ==
    [created |-> created, armed |-> armed,
     delay |-> IF armed THEN BATTERY_MONITOR_PERIOD_MS ELSE 0]

\* y.status is g_battery_status; y.handled lists the (old, new) pairs
\* battery_handle_state_change was called with, y.notified what the observer
\* was called with.
BatteryExec(status) == [status |-> status, handled |-> << >>, notified |-> << >>]

\* Mutant: a current of exactly the threshold counts as charging.
battery_update_state_AtThreshold(status) ==
    LET is_charging == status.charging_current_ma >= CHARGING_CURRENT_THRESHOLD_MA
        new_state ==
            IF is_charging
            THEN IF status.battery_percent >= BATTERY_FULL_THRESHOLD_PERCENT
                 THEN BATTERY_STATE_FULL ELSE BATTERY_STATE_CHARGING
            ELSE IF status.battery_percent <= BATTERY_CRITICAL_THRESHOLD_PERCENT
                 THEN BATTERY_STATE_CRITICAL
                 ELSE IF status.battery_percent <= BATTERY_LOW_THRESHOLD_PERCENT
                      THEN BATTERY_STATE_LOW ELSE BATTERY_STATE_NORMAL
    IN [status EXCEPT !.is_charging = is_charging, !.state = new_state]

battery_update_state(status) ==
    LET is_charging == status.charging_current_ma > CHARGING_CURRENT_THRESHOLD_MA
        new_state ==
            IF is_charging
            THEN IF status.battery_percent >= BATTERY_FULL_THRESHOLD_PERCENT
                 THEN BATTERY_STATE_FULL ELSE BATTERY_STATE_CHARGING
            ELSE IF status.battery_percent <= BATTERY_CRITICAL_THRESHOLD_PERCENT
                 THEN BATTERY_STATE_CRITICAL
                 ELSE IF status.battery_percent <= BATTERY_LOW_THRESHOLD_PERCENT
                      THEN BATTERY_STATE_LOW ELSE BATTERY_STATE_NORMAL
    IN [status EXCEPT !.is_charging = is_charging, !.state = new_state]

\* the switch on new_state
LowWarningAfter(status, new_state) ==
    IF new_state \in {BATTERY_STATE_LOW, BATTERY_STATE_CRITICAL}
    THEN TRUE
    ELSE IF new_state \in {BATTERY_STATE_CHARGING, BATTERY_STATE_FULL,
                           BATTERY_STATE_NORMAL}
         THEN FALSE
         ELSE status.is_low_battery_warning_active

\* Mutant: the observer is called before the warning flag is brought up to date.
battery_handle_state_change_NotifiesFirst(y, old_state, new_state) ==
    LET booked == [y.status EXCEPT !.is_low_battery_warning_active =
                                       LowWarningAfter(y.status, new_state)]
        event == [old_state |-> old_state, new_state |-> new_state]
    IN [status |-> booked,
        handled |-> Append(y.handled, event),
        notified |-> IF g_state_callback # NULL
                     THEN Append(y.notified,
                                 [old_state |-> old_state, new_state |-> new_state,
                                  status |-> y.status])
                     ELSE y.notified]

battery_handle_state_change(y, old_state, new_state) ==
    LET booked == [y.status EXCEPT !.is_low_battery_warning_active =
                                       LowWarningAfter(y.status, new_state)]
        event == [old_state |-> old_state, new_state |-> new_state]
    IN [status |-> booked,
        handled |-> Append(y.handled, event),
        notified |-> IF g_state_callback # NULL
                     THEN Append(y.notified,
                                 [old_state |-> old_state, new_state |-> new_state,
                                  status |-> booked])
                     ELSE y.notified]

\* Mutant: the change handler runs on every update, changed or not.
battery_monitor_update_values_body_AlwaysHandles(y, battery_percent, battery_voltage, charging_current_ma) ==
    LET old_state == y.status.state
        stored == [y.status EXCEPT !.battery_percent = battery_percent % Uint8,
                                   !.battery_voltage = battery_voltage,
                                   !.charging_current_ma = charging_current_ma]
        updated == [y EXCEPT !.status = battery_update_state(stored)]
    IN battery_handle_state_change(updated, old_state, updated.status.state)

\* Mutant: the readings are stored only when they change the state.
battery_monitor_update_values_body_StoresOnChange(y, battery_percent, battery_voltage, charging_current_ma) ==
    LET old_state == y.status.state
        stored == [y.status EXCEPT !.battery_percent = battery_percent % Uint8,
                                   !.battery_voltage = battery_voltage,
                                   !.charging_current_ma = charging_current_ma]
        updated == [y EXCEPT !.status = battery_update_state(stored)]
    IN IF updated.status.state # old_state
       THEN battery_handle_state_change(updated, old_state, updated.status.state)
       ELSE y

battery_monitor_update_values_body(y, battery_percent, battery_voltage, charging_current_ma) ==
    LET old_state == y.status.state
        stored == [y.status EXCEPT !.battery_percent = battery_percent % Uint8,
                                   !.battery_voltage = battery_voltage,
                                   !.charging_current_ma = charging_current_ma]
        updated == [y EXCEPT !.status = battery_update_state(stored)]
    IN IF updated.status.state # old_state
       THEN battery_handle_state_change(updated, old_state, updated.status.state)
       ELSE updated

battery_monitor_force_update_body(y) ==
    [y EXCEPT !.status = battery_update_state(y.status)]

\* the stub reading: 85 %, 3.8 V, 0.0 A * 1000
battery_monitor_timer_callback_body(y) ==
    IF ~g_monitor_active
    THEN y
    ELSE battery_monitor_update_values_body(y, 85, 3800, 0 * 1000)

battery_monitor_get_status == g_battery_status

Reading(percent, mv, ma) ==
    [battery_percent |-> percent, battery_voltage |-> mv, charging_current_ma |-> ma]
NoReading == Reading(0, 0, 0)

BatteryHistory(op, arg, ret, y) ==
    [op |-> op, arg |-> arg, ret |-> ret,
     handled |-> y.handled, notified |-> y.notified,
     pre |-> [state |-> g_battery_status.state,
              warning |-> g_battery_status.is_low_battery_warning_active]]

\* osTimerNew may return NULL; battery_monitor_init then returns SL_STATUS_FAIL
\* with the record initialised all the same.
battery_monitor_init ==
    /\ g_battery_status = battery_status_t(100, 4200, 0, BATTERY_STATE_NORMAL,
                                           FALSE, FALSE)
    /\ g_state_callback = NULL
    /\ g_monitor_timer \in {MonitorTimer(TRUE, FALSE), MonitorTimer(FALSE, FALSE)}
    /\ g_monitor_active = FALSE
    /\ battery_last =
           [op |-> "battery_monitor_init", arg |-> NoReading,
            ret |-> IF g_monitor_timer.created THEN "SL_STATUS_OK" ELSE "SL_STATUS_FAIL",
            handled |-> << >>, notified |-> << >>,
            pre |-> [state |-> BATTERY_STATE_UNKNOWN, warning |-> FALSE]]

\* ------------------------------------------------------------------- state
led_status_indicator_init ==
    /\ g_led_context = [current_status |-> LED_STATUS_OFF,
                        pattern_state |-> "IDLE",
                        current_step |-> 0,
                        current_flash |-> 0,
                        repeat_counter |-> 0,
                        led_state |-> FALSE,
                        timer_handle |-> TimerStopped,
                        auto_stop_timer |-> TimerStopped]
    /\ blue_led = FALSE
    /\ cb_queue = << >>
    /\ faulted = FALSE
    /\ null_read \in NullReads
    /\ last = History("led_status_indicator_init", 0, "SL_STATUS_OK",
                      [Exec(g_led_context, FALSE) EXCEPT !.cmds = << FALSE >>], FALSE)

Init ==
    /\ patterns = led_patterns
    /\ led_status_indicator_init
    /\ battery_monitor_init
    /\ g_monitor_timer.created

Apply(x) ==
    /\ g_led_context' = x.ctx
    /\ blue_led' = x.led
    /\ faulted' = x.fault
    /\ UNCHANGED <<patterns, null_read>>
    /\ UNCHANGED battery_vars

led_status_set(status) ==
    /\ ~faulted
    /\ LET r == led_status_set_body(Exec(g_led_context, blue_led), status) IN
       /\ Apply(r.x)
       /\ cb_queue' = IF r.ret = "SL_STATUS_INVALID_PARAMETER"
                         \/ status = g_led_context.current_status
                      THEN cb_queue ELSE Outdated(cb_queue)
       /\ last' = History("led_status_set", status, r.ret, r.x, FALSE)

led_status_stop ==
    /\ ~faulted
    /\ LET x == led_status_stop_body(Exec(g_led_context, blue_led)) IN
       /\ Apply(x)
       /\ cb_queue' = Outdated(cb_queue)
       /\ last' = History("led_status_stop", 0, "void", x, FALSE)

\* The step timer (osTimerOnce) reaches its delay: it is no longer armed and
\* its callback waits for the timer service.
StepTimerExpires ==
    /\ ~faulted
    /\ g_led_context.timer_handle.armed
    /\ Len(cb_queue) < MaxQueue
    /\ g_led_context' = [g_led_context EXCEPT !.timer_handle = TimerStopped]
    /\ cb_queue' = Append(cb_queue, [fn |-> "led_timer_callback", replaced |-> FALSE])
    /\ last' = History("StepTimerExpires", 0, "void", Exec(g_led_context, blue_led), FALSE)
    /\ UNCHANGED <<blue_led, patterns, null_read, faulted>>
    /\ UNCHANGED battery_vars

led_timer_callback ==
    /\ ~faulted
    /\ cb_queue # << >>
    /\ Head(cb_queue).fn = "led_timer_callback"
    /\ LET x == led_timer_callback_body(Exec(g_led_context, blue_led)) IN
       /\ Apply(x)
       /\ cb_queue' = Tail(cb_queue)
       /\ last' = History("led_timer_callback", 0, "void", x, Head(cb_queue).replaced)

Next ==
    \/ \E status \in 0 .. MaxStatusArg : led_status_set(status)
    \/ led_status_stop
    \/ StepTimerExpires
    \/ led_timer_callback

Spec == Init /\ [][Next]_vars

\* ------------------------------------------- the sequencer over pattern tables
\* The step-advance algorithm is parametric in the table.  SpecCfg runs it on
\* led_patterns and on tables whose every entry with steps auto-stops after a
\* delay > 0, which led_patterns never asks for.  Only statuses whose entry
\* has steps are set, so nothing is read through a NULL steps pointer.
AutoStopping(delay) ==
    [s \in DOMAIN led_patterns |->
        IF led_patterns[s].step_count > 0
        THEN [led_patterns[s] EXCEPT !.auto_stop = TRUE, !.auto_stop_delay_ms = delay]
        ELSE led_patterns[s]]

PatternTables ==
    {led_patterns} \cup {AutoStopping(1000 * d) : d \in 1 .. MaxAutoStopDelay}

StepStatuses == {s \in DOMAIN led_patterns : led_patterns[s].step_count > 0}

InitCfg ==
    /\ patterns \in PatternTables
    /\ led_status_indicator_init
    /\ null_read.fault
    /\ battery_monitor_init
    /\ g_monitor_timer.created

\* The auto-stop timer (osTimerOnce) reaches its delay.
AutoStopTimerExpires ==
    /\ ~faulted
    /\ g_led_context.auto_stop_timer.armed
    /\ Len(cb_queue) < MaxQueue
    /\ g_led_context' = [g_led_context EXCEPT !.auto_stop_timer = TimerStopped]
    /\ cb_queue' = Append(cb_queue, [fn |-> "auto_stop_timer_callback", replaced |-> FALSE])
    /\ last' = History("AutoStopTimerExpires", 0, "void", Exec(g_led_context, blue_led), FALSE)
    /\ UNCHANGED <<blue_led, patterns, null_read, faulted>>
    /\ UNCHANGED battery_vars

auto_stop_timer_callback ==
    /\ ~faulted
    /\ cb_queue # << >>
    /\ Head(cb_queue).fn = "auto_stop_timer_callback"
    /\ LET x == auto_stop_timer_callback_body(Exec(g_led_context, blue_led)) IN
       /\ Apply(x)
       /\ cb_queue' = Outdated(Tail(cb_queue))
       /\ last' = History("auto_stop_timer_callback", 0, "void", x,
                           Head(cb_queue).replaced)

NextCfg ==
    \/ \E status \in StepStatuses \cup {LED_STATUS_MAX} : led_status_set(status)
    \/ led_status_stop
    \/ StepTimerExpires
    \/ led_timer_callback
    \/ AutoStopTimerExpires
    \/ auto_stop_timer_callback

SpecCfg == InitCfg /\ [][NextCfg]_vars

\* ------------------------------------------------------- the battery monitor
\* Readings passed to battery_monitor_update_values: each threshold, the value
\* next to it on the other side, and the ends of the range.
Percents ==
    {0, BATTERY_CRITICAL_THRESHOLD_PERCENT, BATTERY_CRITICAL_THRESHOLD_PERCENT + 1,
     BATTERY_LOW_THRESHOLD_PERCENT, BATTERY_LOW_THRESHOLD_PERCENT + 1,
     BATTERY_FULL_THRESHOLD_PERCENT - 1, BATTERY_FULL_THRESHOLD_PERCENT,
     MaxPercent}
Currents == {0, CHARGING_CURRENT_THRESHOLD_MA, CHARGING_CURRENT_THRESHOLD_MA + 1}
Voltages == {3700}
Observers == {NULL, "observer"}

ApplyBattery(y) ==
    /\ g_battery_status' = y.status
    /\ UNCHANGED led_vars

battery_monitor_start ==
    /\ IF ~g_monitor_timer.created
       THEN /\ battery_last' = BatteryHistory("battery_monitor_start", NoReading,
                                  "SL_STATUS_NOT_INITIALIZED", BatteryExec(g_battery_status))
            /\ UNCHANGED <<g_monitor_timer, g_monitor_active>>
       ELSE /\ g_monitor_timer' = MonitorTimer(TRUE, TRUE)
            /\ g_monitor_active' = TRUE
            /\ battery_last' = BatteryHistory("battery_monitor_start", NoReading,
                                  "SL_STATUS_OK", BatteryExec(g_battery_status))
    /\ UNCHANGED <<g_battery_status, g_state_callback, cb_queue>>
    /\ UNCHANGED led_vars

battery_monitor_stop ==
    /\ g_monitor_timer' = IF g_monitor_timer.created
                          THEN MonitorTimer(TRUE, FALSE) ELSE g_monitor_timer
    /\ g_battery_status' = [g_battery_status EXCEPT
                               !.is_low_battery_warning_active = FALSE]
    /\ g_monitor_active' = FALSE
    /\ battery_last' = BatteryHistory("battery_monitor_stop", NoReading, "void",
                                      BatteryExec(g_battery_status'))
    /\ UNCHANGED <<g_state_callback, cb_queue>>
    /\ UNCHANGED led_vars

battery_monitor_set_callback(callback) ==
    /\ g_state_callback' = callback
    /\ battery_last' = BatteryHistory("battery_monitor_set_callback", NoReading,
                                      "SL_STATUS_OK", BatteryExec(g_battery_status))
    /\ UNCHANGED <<g_battery_status, g_monitor_timer, g_monitor_active, cb_queue>>
    /\ UNCHANGED led_vars

battery_monitor_force_update ==
    /\ LET y == battery_monitor_force_update_body(BatteryExec(g_battery_status)) IN
       /\ ApplyBattery(y)
       /\ battery_last' = BatteryHistory("battery_monitor_force_update", NoReading,
                                         "void", y)
    /\ UNCHANGED <<g_state_callback, g_monitor_timer, g_monitor_active, cb_queue>>

battery_monitor_update_values(battery_percent, battery_voltage, charging_current_ma) ==
    /\ LET y == battery_monitor_update_values_body(BatteryExec(g_battery_status),
                    battery_percent, battery_voltage, charging_current_ma) IN
       /\ ApplyBattery(y)
       /\ battery_last' = BatteryHistory("battery_monitor_update_values",
                              Reading(battery_percent, battery_voltage, charging_current_ma),
                              "void", y)
    /\ UNCHANGED <<g_state_callback, g_monitor_timer, g_monitor_active, cb_queue>>

\* The periodic monitor timer reaches its period: it stays armed and its
\* callback waits for the timer service.
MonitorTimerExpires ==
    /\ g_monitor_timer.armed
    /\ Len(cb_queue) < MaxQueue
    /\ cb_queue' = Append(cb_queue, [fn |-> "battery_monitor_timer_callback",
                                     replaced |-> FALSE])
    /\ battery_last' = BatteryHistory("MonitorTimerExpires", NoReading, "void",
                                      BatteryExec(g_battery_status))
    /\ UNCHANGED <<g_battery_status, g_state_callback, g_monitor_timer, g_monitor_active>>
    /\ UNCHANGED led_vars

battery_monitor_timer_callback ==
    /\ cb_queue # << >>
    /\ Head(cb_queue).fn = "battery_monitor_timer_callback"
    /\ LET y == battery_monitor_timer_callback_body(BatteryExec(g_battery_status)) IN
       /\ ApplyBattery(y)
       /\ battery_last' = BatteryHistory("battery_monitor_timer_callback",
                              IF g_monitor_active THEN Reading(85, 3800, 0) ELSE NoReading,
                              "void", y)
    /\ cb_queue' = Tail(cb_queue)
    /\ UNCHANGED <<g_state_callback, g_monitor_timer, g_monitor_active>>

battery_monitor_simulate_low_battery ==
    /\ LET y == battery_monitor_update_values_body(BatteryExec(g_battery_status),
                    15, 3200, 0) IN
       /\ ApplyBattery(y)
       /\ battery_last' = BatteryHistory("battery_monitor_simulate_low_battery",
                                         Reading(15, 3200, 0), "void", y)
    /\ UNCHANGED <<g_state_callback, g_monitor_timer, g_monitor_active, cb_queue>>

battery_monitor_simulate_charging_start ==
    /\ LET y == battery_monitor_update_values_body(BatteryExec(g_battery_status),
                    30, 3500, 500) IN
       /\ ApplyBattery(y)
       /\ battery_last' = BatteryHistory("battery_monitor_simulate_charging_start",
                                         Reading(30, 3500, 500), "void", y)
    /\ UNCHANGED <<g_state_callback, g_monitor_timer, g_monitor_active, cb_queue>>

battery_monitor_simulate_charging_complete ==
    /\ LET y == battery_monitor_update_values_body(BatteryExec(g_battery_status),
                    100, 4200, 20) IN
       /\ ApplyBattery(y)
       /\ battery_last' = BatteryHistory("battery_monitor_simulate_charging_complete",
                                         Reading(100, 4200, 20), "void", y)
    /\ UNCHANGED <<g_state_callback, g_monitor_timer, g_monitor_active, cb_queue>>

InitBattery ==
    /\ patterns = led_patterns
    /\ led_status_indicator_init
    /\ null_read.fault
    /\ battery_monitor_init

NextBattery ==
    \/ battery_monitor_start
    \/ battery_monitor_stop
    \/ \E callback \in Observers : battery_monitor_set_callback(callback)
    \/ battery_monitor_force_update
    \/ \E p \in Percents, v \in Voltages, c \in Currents :
           battery_monitor_update_values(p, v, c)
    \/ MonitorTimerExpires
    \/ battery_monitor_timer_callback
    \/ battery_monitor_simulate_low_battery
    \/ battery_monitor_simulate_charging_start
    \/ battery_monitor_simulate_charging_complete

SpecBattery == InitBattery /\ [][NextBattery]_vars

\* ------------------------------------------------------------------ claims
HasSteps(s) == patterns[s].step_count > 0
FirstStep(s) == patterns[s].steps[1]
\* led_status_set handles these two without running the pattern
SpecialCased(s) == s = LED_STATUS_OFF \/ s = LED_STATUS_OTA_SUCCESS
\* first step repeat_count == 0: the pattern restarts when its steps are done
Infinite(s) == HasSteps(s) /\ FirstStep(s).repeat_count = 0
\* a finite pattern whose table entry asks for auto-stop
AutoStopFinite(s) ==
    HasSteps(s) /\ patterns[s].auto_stop /\ FirstStep(s).repeat_count # 0
\* something is left that will run without a caller
Pending ==
    \/ g_led_context.timer_handle.armed
    \/ g_led_context.auto_stop_timer.armed
    \/ cb_queue # << >>
SetReturned(s) == last.op = "led_status_set" /\ last.arg = s

\* C1: a step-timer callback armed for a pattern that set() has since replaced
\* by another status (or stop() has ended) never runs the step-advance logic.
C1_ReplacedCallbackNeverAdvances ==
    (last.op = "led_timer_callback" /\ last.replaced) => ~last.ran

\* C2: the step timer and the auto-stop timer are never both armed, and a
\* timer found armed when set() has returned was armed by that set() for the
\* new pattern (step timer: the pattern is ACTIVE; auto-stop timer: COMPLETE).
C2_TimersNeverBothArmed ==
    /\ ~(g_led_context.timer_handle.armed /\ g_led_context.auto_stop_timer.armed)
    /\ (last.op = "led_status_set" /\ last.ret = "SL_STATUS_OK") =>
          /\ g_led_context.timer_handle.armed =>
                g_led_context.pattern_state = "ACTIVE"
          /\ g_led_context.auto_stop_timer.armed =>
                g_led_context.pattern_state = "COMPLETE"

\* C2 witness: set() preempted an ACTIVE pattern whose step timer was pending
\* and armed the step timer for the new pattern.
C2_SetPreemptedArmedTimer ==
    /\ last.op = "led_status_set" /\ last.ret = "SL_STATUS_OK"
    /\ last.pre.pattern_state = "ACTIVE" /\ last.pre.timer_armed
    /\ g_led_context.timer_handle.armed
    /\ ~g_led_context.auto_stop_timer.armed

\* C3: set(s) of a status with a pattern, other than OFF and OTA_SUCCESS,
\* returns success with the phase ACTIVE and the cursor on the first step.
C3_SetStartsFirstStep ==
    \A s \in 0 .. (LED_STATUS_MAX - 1) :
        (SetReturned(s) /\ HasSteps(s) /\ ~SpecialCased(s)) =>
            /\ last.ret = "SL_STATUS_OK"
            /\ led_status_is_active
            /\ g_led_context.current_step = 0

\* C4: while the current status has a pattern whose first step has
\* repeat_count == 0 and the phase is ACTIVE, no step other than set() or
\* stop() (no timer expiry, no callback) takes the phase out of ACTIVE.
C4_InfinitePatternNeverCompletes ==
    [][ ( /\ Infinite(g_led_context.current_status)
          /\ g_led_context.pattern_state = "ACTIVE"
          /\ last'.op \notin {"led_status_set", "led_status_stop"} )
        => g_led_context'.pattern_state = "ACTIVE" ]_vars

\* C4 witness: a step-timer callback wrapped an infinite pattern from its last
\* step back to step 0, still ACTIVE.
C4_CallbackWrapped ==
    /\ last.op = "led_timer_callback" /\ last.wrapped
    /\ Infinite(g_led_context.current_status)
    /\ g_led_context.pattern_state = "ACTIVE"
    /\ g_led_context.current_step = 0

\* C5: a finite auto_stop pattern returns by itself to IDLE / OFF: when a
\* step-timer callback has completed its steps the output is off and a timer
\* or a callback is pending that will take the sequencer there.
C5_AutoStopReturnsToIdle ==
    ( /\ AutoStopFinite(g_led_context.current_status)
      /\ last.op = "led_timer_callback" /\ last.completed ) =>
        /\ ~g_led_context.led_state
        /\ Pending

C7_SetThenCurrent ==
    \A s \in 0 .. (LED_STATUS_MAX - 1) :
        SetReturned(s) =>
            /\ last.ret = "SL_STATUS_OK"
            /\ led_status_get_current = s

\* C8: from set(LED_STATUS_OFF) on, for as long as OFF is the current status,
\* the output is off and led_status_is_active() is false, whatever timer
\* expires and whatever callback runs.
C8_SetOffIsOffAndInactive ==
    g_led_context.current_status = LED_STATUS_OFF =>
        /\ ~g_led_context.led_state
        /\ ~blue_led
        /\ ~led_status_is_active

\* C8 witness: set(OFF) came while a pattern was ACTIVE with the output on and
\* its step timer pending.
C8_SetOffWhileLit ==
    /\ SetReturned(LED_STATUS_OFF)
    /\ last.pre.pattern_state = "ACTIVE"
    /\ last.pre.led_state
    /\ last.pre.timer_armed

\* C9: stop() leaves both timers cancelled, the output off, the phase IDLE and
\* the status OFF, and a second stop() changes nothing.
C9_StopIsIdempotent ==
    last.op = "led_status_stop" =>
        /\ ~g_led_context.timer_handle.armed
        /\ ~g_led_context.auto_stop_timer.armed
        /\ ~g_led_context.led_state /\ ~blue_led
        /\ g_led_context.pattern_state = "IDLE"
        /\ g_led_context.current_status = LED_STATUS_OFF
        /\ LET again == led_status_stop_body(Exec(g_led_context, blue_led)) IN
           /\ again.ctx = g_led_context
           /\ again.led = blue_led
           /\ Outdated(cb_queue) = cb_queue

\* C9 witness: stop() came while a pattern was ACTIVE with the output on and
\* its step timer pending.
C9_StopWhileLit ==
    /\ last.op = "led_status_stop"
    /\ last.pre.pattern_state = "ACTIVE"
    /\ last.pre.led_state
    /\ last.pre.timer_armed

\* C10: set(status) with status >= LED_STATUS_MAX returns the
\* invalid-parameter error and leaves the context (status, phase, cursor,
\* output, both timers), the actuator and the queued callbacks as they were.
C10_InvalidStatusChangesNothing ==
    [][ (last'.op = "led_status_set" /\ last'.arg >= LED_STATUS_MAX) =>
            /\ last'.ret = "SL_STATUS_INVALID_PARAMETER"
            /\ UNCHANGED <<g_led_context, blue_led, cb_queue, faulted>> ]_vars

\* C10 witness: the rejected set() came while a pattern was ACTIVE with its
\* step timer pending, and the timer is pending still.
C10_RejectedWhileRunning ==
    /\ last.op = "led_status_set" /\ last.arg >= LED_STATUS_MAX
    /\ last.ret = "SL_STATUS_INVALID_PARAMETER"
    /\ g_led_context.pattern_state = "ACTIVE"
    /\ g_led_context.timer_handle.armed

\* C11: every status that set() accepts has a table entry with steps, so a
\* set(s) that passed the range check never reads a step through an absent
\* (NULL) steps pointer.
C11_EveryAcceptedStatusHasSteps ==
    (last.op = "led_status_set" /\ last.arg < LED_STATUS_MAX) =>
        /\ HasSteps(last.arg)
        /\ last.ret = "SL_STATUS_OK"

\* the table entry of the current status
CurrentConfig == patterns[g_led_context.current_status]

C13_InactiveCallbackIsNoOp ==
    [][ (last'.op = "led_timer_callback" /\ g_led_context.pattern_state # "ACTIVE") =>
            /\ UNCHANGED <<g_led_context, blue_led, faulted>>
            /\ last'.cmds = << >>
            /\ ~last'.ran ]_vars

\* C13 witness: a callback left in the queue ran after stop() had made the
\* phase IDLE, and nothing is armed.
C13_CallbackAfterStop ==
    /\ last.op = "led_timer_callback" /\ last.replaced
    /\ last.pre.pattern_state = "IDLE"
    /\ g_led_context.pattern_state = "IDLE"
    /\ ~g_led_context.timer_handle.armed

\* C14: when set(s) of a status whose first step flashes (on_time_ms > 0)
\* returns, whatever the state before, the output is on and the step timer
\* is armed for the first step's on_time_ms.
C14_SetStartsWithOnPhase ==
    \A s \in 0 .. (LED_STATUS_MAX - 1) :
        (SetReturned(s) /\ HasSteps(s) /\ ~SpecialCased(s)
            /\ FirstStep(s).on_time_ms > 0) =>
            /\ g_led_context.led_state /\ blue_led
            /\ g_led_context.timer_handle = osTimerStart(FirstStep(s).on_time_ms)

\* C15: BLE_PAIR_FAIL and OTA_FAIL repeat indefinitely: while one of them is
\* the current status and the phase is ACTIVE, a step-timer callback armed for
\* it never takes the phase out of ACTIVE.
C15_FailPatternsRepeat ==
    [][ ( /\ g_led_context.current_status \in
                {LED_STATUS_BLE_PAIR_FAIL, LED_STATUS_OTA_FAIL}
          /\ g_led_context.pattern_state = "ACTIVE"
          /\ last'.op = "led_timer_callback" /\ ~last'.replaced )
        => /\ g_led_context'.pattern_state = "ACTIVE"
           /\ ~last'.completed ]_vars

\* the step timer is armed, or has expired and its callback waits to run
StepPending ==
    \/ g_led_context.timer_handle.armed
    \/ \E i \in 1 .. Len(cb_queue) : cb_queue[i].fn = "led_timer_callback"

\* C19: no stuck indicator.  (a) The output is on only while the phase is
\* ACTIVE.  (b) While the phase is ACTIVE the step timer is armed (or has just
\* expired, its callback about to run).  The step-advance logic run by set()
\* or by a callback ends with the step timer armed or the phase COMPLETE.
C19_NoStuckIndicator ==
    /\ g_led_context.pattern_state # "ACTIVE" =>
          ~g_led_context.led_state /\ ~blue_led
    /\ g_led_context.pattern_state = "ACTIVE" => StepPending
    /\ (last.op \in {"led_status_set", "led_timer_callback"} /\ last.ran) =>
          \/ g_led_context.timer_handle.armed
          \/ g_led_context.pattern_state = "COMPLETE"

\* the cursor is on a pause step (on_time_ms == 0, off_time_ms > 0) of a
\* running pattern
InPauseStep ==
    /\ HasSteps(g_led_context.current_status)
    /\ g_led_context.pattern_state = "ACTIVE"
    /\ g_led_context.current_step < CurrentConfig.step_count
    /\ LET step == CurrentConfig.steps[g_led_context.current_step + 1] IN
       step.on_time_ms = 0 /\ step.off_time_ms > 0

\* C20: a pause step keeps the indicator off for the whole step: the callback
\* that moves the cursor onto the pause step, and every callback that leaves
\* it there, sends no 'on' command, and the output is off.
C20_PauseStepKeepsOutputOff ==
    (InPauseStep /\ last.op = "led_timer_callback" /\ ~last.replaced) =>
        /\ \A i \in 1 .. Len(last.cmds) : ~last.cmds[i]
        /\ ~g_led_context.led_state /\ ~blue_led

\* ------------------------------------------------- claims: battery monitor
\* battery_monitor_update_values has returned: called directly, by one of the
\* simulate functions, or by the timer callback of a started monitor
UpdateReturned ==
    \/ battery_last.op \in {"battery_monitor_update_values",
                            "battery_monitor_simulate_low_battery",
                            "battery_monitor_simulate_charging_start",
                            "battery_monitor_simulate_charging_complete"}
    \/ battery_last.op = "battery_monitor_timer_callback" /\ g_monitor_active

\* the record stored for a reading of percent and current (mA), as C16 words it
Classified(status, percent, current) ==
    /\ status.is_charging = (current > 50)
    /\ (current > 50 /\ percent >= 95) => status.state = BATTERY_STATE_FULL
    /\ (current > 50 /\ percent < 95) => status.state = BATTERY_STATE_CHARGING
    /\ (current <= 50 /\ percent <= 10) => status.state = BATTERY_STATE_CRITICAL
    /\ (current <= 50 /\ 10 < percent /\ percent <= 20) =>
          status.state = BATTERY_STATE_LOW
    /\ (current <= 50 /\ 20 < percent) => status.state = BATTERY_STATE_NORMAL

C17_OneEventIffStateChanged ==
    UpdateReturned =>
        /\ battery_last.handled =
              IF g_battery_status.state # battery_last.pre.state
              THEN << [old_state |-> battery_last.pre.state,
                       new_state |-> g_battery_status.state] >>
              ELSE << >>
        /\ Len(battery_last.notified) =
              IF g_state_callback # NULL THEN Len(battery_last.handled) ELSE 0
        /\ \A i \in 1 .. Len(battery_last.notified) :
              /\ battery_last.notified[i].old_state = battery_last.pre.state
              /\ battery_last.notified[i].new_state = g_battery_status.state

\* C17 witness: with the state LOW, a reading of 21 % (not charging), one
\* percent over the threshold, raised one event LOW -> NORMAL to the observer.
C17_OnePercentOverRaisesEvent ==
    /\ battery_last.op = "battery_monitor_update_values"
    /\ battery_last.arg.battery_percent = 21
    /\ battery_last.pre.state = BATTERY_STATE_LOW
    /\ g_battery_status.state = BATTERY_STATE_NORMAL
    /\ g_state_callback # NULL
    /\ Len(battery_last.handled) = 1
    /\ Len(battery_last.notified) = 1

\* C18: when battery_monitor_update_values changes the state, the warning flag
\* is true for LOW and CRITICAL and false for CHARGING, FULL and NORMAL, and
\* the record the observer receives is the finished one (new state, new
\* flag); when the state does not change the flag is as it was.
C18_WarningFollowsNewState ==
    UpdateReturned =>
        /\ g_battery_status.state # battery_last.pre.state =>
              g_battery_status.is_low_battery_warning_active =
                  (g_battery_status.state \in
                       {BATTERY_STATE_LOW, BATTERY_STATE_CRITICAL})
        /\ g_battery_status.state = battery_last.pre.state =>
              g_battery_status.is_low_battery_warning_active = battery_last.pre.warning
        /\ \A i \in 1 .. Len(battery_last.notified) :
              battery_last.notified[i].status = g_battery_status

\* C18 witness: a charging reading arrived while the state was LOW or CRITICAL
\* with the warning on; the observer received a record with state CHARGING and
\* the warning off.
C18_ChargingClearsWarning ==
    /\ battery_last.op = "battery_monitor_update_values"
    /\ battery_last.pre.state \in {BATTERY_STATE_LOW, BATTERY_STATE_CRITICAL}
    /\ battery_last.pre.warning
    /\ g_battery_status.state = BATTERY_STATE_CHARGING
    /\ Len(battery_last.notified) = 1
    /\ ~battery_last.notified[1].status.is_low_battery_warning_active
    /\ battery_last.notified[1].status.state = BATTERY_STATE_CHARGING

\* C21: in every state after battery_monitor_init the warning flag is true
\* exactly when the state is LOW or CRITICAL.
C21_WarningIffLowOrCritical ==
    g_battery_status.is_low_battery_warning_active =
        (g_battery_status.state \in {BATTERY_STATE_LOW, BATTERY_STATE_CRITICAL})

\* C22: the stored state is always the classification of the stored percent
\* and current, never UNKNOWN; an update stores the percent, voltage and
\* current it was given whether or not the state changed; so
\* battery_monitor_force_update leaves the record as it is and the change
\* handler and the observer are not called.
C22_StateIsClassificationOfStored ==
    /\ g_battery_status.state # BATTERY_STATE_UNKNOWN
    /\ Classified(g_battery_status, g_battery_status.battery_percent,
                  g_battery_status.charging_current_ma)
    /\ UpdateReturned =>
          /\ g_battery_status.battery_percent = battery_last.arg.battery_percent
          /\ g_battery_status.battery_voltage = battery_last.arg.battery_voltage
          /\ g_battery_status.charging_current_ma =
                 battery_last.arg.charging_current_ma
    /\ battery_monitor_force_update_body(BatteryExec(g_battery_status)) =
           BatteryExec(g_battery_status)
    /\ battery_last.op = "battery_monitor_force_update" =>
          /\ battery_last.handled = << >>
          /\ battery_last.notified = << >>
          /\ g_battery_status.state = battery_last.pre.state
          /\ g_battery_status.is_low_battery_warning_active = battery_last.pre.warning

\* C22 witness: battery_monitor_force_update ran with an observer registered
\* while the state was LOW with the warning off (battery_monitor_stop had
\* cleared it), and changed nothing.
C22_ForceUpdateAfterStop ==
    /\ battery_last.op = "battery_monitor_force_update"
    /\ g_state_callback # NULL
    /\ g_battery_status.state = BATTERY_STATE_LOW
    /\ ~g_battery_status.is_low_battery_warning_active
    /\ battery_last.notified = << >>
====
